---- MODULE Spec2Model ----
(***************************************************************************)
(* Model of bot.js: the download queue of the media-downloader bot.        *)
(*                                                                         *)
(* One step of the model is one run-to-completion turn of the Node event   *)
(* loop: a command handler up to its first real suspension point, or a     *)
(* completion event (process close, end of a file transmission) together   *)
(* with the promise continuation it wakes up.                              *)
(*                                                                         *)
(* Left out: /start, /help and the free-text handler (bot.js:127-147,      *)
(* 265-279), which touch none of the state below, the write-only user log  *)
(* (bot.js:44-52) and the replies of /delete.                              *)
(***************************************************************************)
EXTENDS Integers, Sequences, FiniteSets, TLC

VARIABLES
    activeDownloadCount,     \* bot.js:36
    currentDownloadProcess,  \* bot.js:38, 0 is null, j is the handle of request j
    files,                   \* the paths present in downloadsDir
    now,                     \* the last value Date.now() returned
    received,                \* number of download commands handled so far
    pc,                      \* per request: where its async handler stands
    outcome,                 \* per request: the branch the handler ended in
    kind,                    \* per request: "audio", "video" or "mute-video"
    format,                  \* per request: the -f argument given to yt-dlp
    filePath,                \* per request: the handler's local filePath
    proc,                    \* per request: state of its child process
    written,                 \* per request: the process has written its file
    msgs,                    \* per request: bot.sendMessage texts, in order
    sends,                   \* per request: sendAudio/sendVideo calls made
    sentAs,                  \* per request: transport of the last send call
    sendSeen,                \* per request: the file existed when send began
    sendOk,                  \* per request: the transmission succeeded
    unlinks,                 \* per request: fs.unlinkSync calls of the handler
    releases,                \* per request: activeDownloadCount-- executed
    stopNotice,              \* the last reply of /stop
    urlIn,                   \* the argument of a call of normalizeUrl
    urlOut,                  \* what that call returned
    urlPc                    \* "idle", "called" or "returned"

vars == <<activeDownloadCount, currentDownloadProcess, files, now, received,
          pc, outcome, kind, format, filePath, proc, written, msgs,
          sends, sentAs, sendSeen, sendOk, unlinks, releases, stopNotice,
          urlIn, urlOut, urlPc>>

\* Per-request variables, for UNCHANGED clauses.
procVars == <<proc, written>>
sendVars == <<sends, sentAs, sendSeen, sendOk, unlinks>>

\* The variables of the specification of normalizeUrl alone.
urlVars == <<urlIn, urlOut, urlPc>>

----------------------------------------------------------------------------
\* Bounds of the model.

\* Download commands in a run of the general specification.
MaxRequests == 2

\* Download commands in a run of the load specification.
LoadRequests == 7

\* Program constant, bot.js:37.
maxConcurrentDownloads == 5

Max(a, b) == IF a >= b THEN a ELSE b

Jobs == 1 .. Max(MaxRequests, LoadRequests)

null == 0

\* The value of an unassigned or undefined filePath.
Undefined == <<0, "undefined">>

----------------------------------------------------------------------------
\* URLs.  A URL is a sequence of tokens, each token a piece of its text;
\* "includes" and "split" of the source work on whole tokens.

\* bot.js:18-27
SUPPORTED_DOMAINS ==
    {"youtube.com", "youtu.be", "vimeo.com", "dailymotion.com",
     "soundcloud.com", "facebook.com", "1024terabox.com", "instagram.com"}

\* Tokens whose text begins with "http".
HttpTokens == {"http://", "https://", "http"}

\* Tokens that open a real scheme: new URL() accepts the text after them.
SchemeTokens == {"http://", "https://"}

\* Tokens that end the host part of a URL.
HostEnd == {"/", "/shorts/", "/watch", "?"}

\* Index of the first token of url, from position i on, that is in S;
\* Len(url) + 1 when there is none.
RECURSIVE FirstIn(_, _, _)
FirstIn(url, S, i) ==
    IF i > Len(url) THEN Len(url) + 1
    ELSE IF url[i] \in S THEN i
    ELSE FirstIn(url, S, i + 1)

\* url.includes('youtube.com/shorts/')
IncludesShorts(url) ==
    \E i \in 1 .. Len(url) - 1 :
        url[i] = "youtube.com" /\ url[i + 1] = "/shorts/"

\* url.split('/shorts/')[1]?.split('?')[0]
VideoId(url) ==
    LET a == FirstIn(url, {"/shorts/"}, 1)
        b == FirstIn(url, {"/shorts/"}, a + 1)
        seg == SubSeq(url, a + 1, b - 1)
        q == FirstIn(seg, {"?"}, 1)
    IN  SubSeq(seg, 1, q - 1)

\* bot.js:55-61
normalizeUrl(url) ==
    IF IncludesShorts(url)
    THEN <<"https://", "www.", "youtube.com", "/watch", "?", "v=">> \o VideoId(url)
    ELSE url

\* hostname of new URL(url), as the sequence of its tokens
Hostname(url) == SubSeq(url, 2, FirstIn(url, HostEnd, 2) - 1)

\* bot.js:64-71; new URL() throws when the text has no scheme or no host
isSupportedDomain(url) ==
    IF Len(url) = 0 \/ url[1] \notin SchemeTokens \/ Len(Hostname(url)) = 0
    THEN FALSE
    ELSE \E i \in 1 .. Len(Hostname(url)) : Hostname(url)[i] \in SUPPORTED_DOMAINS

\* A test that refuses the empty URL only and forgets the prefix.
IsInvalidUrlEmptyOnly(url) == Len(url) = 0

\* bot.js:155 and bot.js:195: !url || !url.startsWith('http')
IsInvalidUrl(url) == Len(url) = 0 \/ url[1] \notin HttpTokens

\* The URLs the commands of the model carry.
Urls ==
    { <<>>,
      <<"www.", "youtube.com", "/watch", "?", "v=", "abc">>,
      <<"http", "youtube.com">>,
      <<"https://", "evil.example", "/", "abc">>,
      <<"https://", "youtu.be", "/", "abc">>,
      <<"https://", "www.", "youtube.com", "/shorts/", "abc", "?", "si=1">>,
      <<"https://", "not", "youtube.com", ".evil.example", "/", "abc">> }

\* The URL of the load specification's commands.
LoadUrl == <<"https://", "youtu.be", "/", "abc">>

----------------------------------------------------------------------------
\* Request kinds and what the two download handlers derive from them.

Kinds == {"audio", "video", "mute-video"}

\* bot.js:167 (command === 'audio') and bot.js:207 (false)
IsAudio(k) == k = "audio"

\* A /mute-video handler that kept the format of /video.
FormatOfKeepsAudio(k) ==
    IF IsAudio(k) THEN "bestaudio" ELSE "bestvideo+bestaudio"

\* bot.js:168 and bot.js:208
FormatOf(k) ==
    IF k = "mute-video" THEN "bestvideo"
    ELSE IF IsAudio(k) THEN "bestaudio" ELSE "bestvideo+bestaudio"

\* bot.js:81
ExtensionOf(k) == IF IsAudio(k) THEN "mp3" ELSE "mp4"

\* bot.js:177-181 and bot.js:217
TransportOf(k) == IF IsAudio(k) THEN "sendAudio" ELSE "sendVideo"

\* bot.js:82-83: the path is the clock reading plus the extension
PathOf(t, k) == <<t, ExtensionOf(k)>>

----------------------------------------------------------------------------
InitBot ==
    /\ activeDownloadCount = 0
    /\ currentDownloadProcess = null
    /\ files = {}
    /\ now = 1
    /\ received = 0
    /\ pc = [j \in Jobs |-> "idle"]
    /\ outcome = [j \in Jobs |-> "none"]
    /\ kind = [j \in Jobs |-> "none"]
    /\ format = [j \in Jobs |-> "none"]
    /\ filePath = [j \in Jobs |-> Undefined]
    /\ proc = [j \in Jobs |-> "none"]
    /\ written = [j \in Jobs |-> FALSE]
    /\ msgs = [j \in Jobs |-> <<>>]
    /\ sends = [j \in Jobs |-> 0]
    /\ sentAs = [j \in Jobs |-> "none"]
    /\ sendSeen = [j \in Jobs |-> FALSE]
    /\ sendOk = [j \in Jobs |-> FALSE]
    /\ unlinks = [j \in Jobs |-> 0]
    /\ releases = [j \in Jobs |-> 0]
    /\ stopNotice = "none"

Init ==
    /\ InitBot
    /\ urlIn = <<>>
    /\ urlOut = <<>>
    /\ urlPc = "idle"

----------------------------------------------------------------------------
\* The download handlers, bot.js:150-188 and bot.js:191-224.

\* bot.js:155-158, 162-165 and their twins at 195-198, 202-205: one notice,
\* then return.
RejectUrl(j, why) ==
    /\ msgs' = [msgs EXCEPT ![j] = Append(@, why)]
    /\ outcome' = [outcome EXCEPT ![j] = why]
    /\ pc' = [pc EXCEPT ![j] = "done"]
    /\ UNCHANGED <<activeDownloadCount, currentDownloadProcess, files, now,
                   format, filePath, procVars, sendVars, releases>>

\* bot.js:176-181 and bot.js:217: the handler calls sendAudio or sendVideo
\* with the value p it awaited, and suspends until the transmission ends.
\* A transmission can succeed only when the file was there as it began.
StartSend(j, k, p, dir) ==
    /\ sends' = [sends EXCEPT ![j] = @ + 1]
    /\ sentAs' = [sentAs EXCEPT ![j] = TransportOf(k)]
    /\ sendSeen' = [sendSeen EXCEPT ![j] = p \in dir]
    /\ pc' = [pc EXCEPT ![j] = "awaitSend"]
    /\ UNCHANGED <<sendOk, unlinks>>

\* bot.js:75-78: the queue is full; downloadMedia sends the notice and
\* returns undefined, which the handler awaits and passes on (bot.js:174-181).
QueueFull(j, k) ==
    /\ msgs' = [msgs EXCEPT ![j] = @ \o <<"Downloading", "QueueFull">>]
    /\ outcome' = [outcome EXCEPT ![j] = "QueueFull"]
    /\ format' = [format EXCEPT ![j] = FormatOf(k)]
    /\ StartSend(j, k, Undefined, files)
    /\ UNCHANGED <<activeDownloadCount, currentDownloadProcess, files, now,
                   filePath, procVars, releases>>

\* bot.js:80-92: take a slot, name the file after the clock reading t, spawn
\* the process and record it as the current one; the handler then awaits
\* the promise (bot.js:174).
\* A registry that keeps the handle it already holds.
RecordProcessKeepsFirst(current, j) == IF current = null THEN j ELSE current

\* bot.js:90: currentDownloadProcess = exec(...), whatever the slot held
RecordProcess(current, j) == j

Admit(j, k, t) ==
    /\ activeDownloadCount' = activeDownloadCount + 1
    /\ now' = t
    /\ filePath' = [filePath EXCEPT ![j] = PathOf(t, k)]
    /\ currentDownloadProcess' = RecordProcess(currentDownloadProcess, j)
    /\ proc' = [proc EXCEPT ![j] = "running"]
    /\ msgs' = [msgs EXCEPT ![j] = Append(@, "Downloading")]
    /\ format' = [format EXCEPT ![j] = FormatOf(k)]
    /\ pc' = [pc EXCEPT ![j] = "awaitDownload"]
    /\ UNCHANGED <<files, outcome, written, sendVars, releases>>

\* bot.js:74-79: the admission test of downloadMedia
IsFull(count) == count >= maxConcurrentDownloads

\* /audio <url>, /video <url> and /mute-video <url>: request j of kind k
\* arrives with this url while Date.now() reads t.
Request(j, k, url, t) ==
    /\ UNCHANGED urlVars
    /\ j = received + 1
    /\ received' = j
    /\ kind' = [kind EXCEPT ![j] = k]
    /\ IF IsInvalidUrl(url) THEN RejectUrl(j, "InvalidUrl")
       ELSE IF ~isSupportedDomain(normalizeUrl(url)) THEN RejectUrl(j, "Unsupported")
       ELSE IF IsFull(activeDownloadCount) THEN QueueFull(j, k)
       ELSE Admit(j, k, t)
    /\ UNCHANGED stopNotice

----------------------------------------------------------------------------
\* The child process and its events, bot.js:90-107.

\* The external tool writes its output file while it runs.
WriteFile(j) ==
    /\ UNCHANGED urlVars
    /\ proc[j] = "running"
    /\ ~written[j]
    /\ written' = [written EXCEPT ![j] = TRUE]
    /\ files' = files \cup {filePath[j]}
    /\ UNCHANGED <<activeDownloadCount, currentDownloadProcess, now, received,
                   pc, outcome, kind, format, filePath, proc, msgs,
                   sendVars, releases, stopNotice>>

\* A failure that is reported twice, by the callback and by the listener.
DownloadFailedTwice(j) ==
    /\ msgs' = [msgs EXCEPT ![j] = @ \o <<"DownloadError", "DownloadError">>]
    /\ outcome' = [outcome EXCEPT ![j] = "Failed"]
    /\ pc' = [pc EXCEPT ![j] = "done"]
    /\ UNCHANGED sendVars

\* bot.js:94-98 and the catch at bot.js:184-187 (220-223): the promise is
\* rejected with the error text, which the handler sends to the requester.
DownloadFailed(j) ==
    /\ msgs' = [msgs EXCEPT ![j] = Append(@, "DownloadError")]
    /\ outcome' = [outcome EXCEPT ![j] = "Failed"]
    /\ pc' = [pc EXCEPT ![j] = "done"]
    /\ UNCHANGED sendVars

\* bot.js:99-100 and bot.js:176-181: the promise resolves with filePath and
\* the handler goes on to transmit the file.
DownloadSucceeded(j) ==
    /\ StartSend(j, kind[j], filePath[j], files)
    /\ UNCHANGED <<msgs, outcome>>

\* bot.js:91-92: the exec callback's bookkeeping
CallbackCount(count) == count - 1

\* bot.js:105: the 'close' listener's bookkeeping
CloseCount(count) == count - 1

\* bot.js:92 and bot.js:106: both reset the registry, whichever process it
\* holds
ResetProcess(current, j) == null

\* The process of request j ends and its 'close' event is delivered: exec's
\* own listener runs the callback (bot.js:90-101), then the listener added
\* at bot.js:104 runs, then the awaiting handler continues.  The process
\* ends with an error (a non-zero exit code or a signal) or, once its file
\* is written, with exit code zero; a signal that finds the process already
\* ended is lost.
ProcessClose(j, error) ==
    /\ UNCHANGED urlVars
    /\ proc[j] \in {"running", "signalled"}
    /\ ~error => written[j]
    /\ activeDownloadCount' = CloseCount(CallbackCount(activeDownloadCount))
    /\ currentDownloadProcess' =
           ResetProcess(ResetProcess(currentDownloadProcess, j), j)
    /\ releases' = [releases EXCEPT ![j] = @ + 2]
    /\ proc' = [proc EXCEPT ![j] = "closed"]
    /\ IF error THEN DownloadFailed(j) ELSE DownloadSucceeded(j)
    /\ UNCHANGED <<files, now, received, kind, format, filePath, written,
                   stopNotice>>

\* The process of request j cannot be spawned: the 'error' event runs the
\* exec callback (bot.js:90-98) and the handler's catch; 'close' follows in
\* a later turn.
SpawnError(j) ==
    /\ UNCHANGED urlVars
    /\ proc[j] = "running"
    /\ ~written[j]
    /\ activeDownloadCount' = CallbackCount(activeDownloadCount)
    /\ currentDownloadProcess' = ResetProcess(currentDownloadProcess, j)
    /\ releases' = [releases EXCEPT ![j] = @ + 1]
    /\ proc' = [proc EXCEPT ![j] = "errored"]
    /\ DownloadFailed(j)
    /\ UNCHANGED <<files, now, received, kind, format, filePath, written,
                   stopNotice>>

\* bot.js:104-107: the 'close' event of a process that failed to spawn
CloseAfterError(j) ==
    /\ UNCHANGED urlVars
    /\ proc[j] = "errored"
    /\ activeDownloadCount' = CloseCount(activeDownloadCount)
    /\ currentDownloadProcess' = ResetProcess(currentDownloadProcess, j)
    /\ releases' = [releases EXCEPT ![j] = @ + 1]
    /\ proc' = [proc EXCEPT ![j] = "closed"]
    /\ UNCHANGED <<files, now, received, pc, outcome, kind, format, filePath,
                   written, msgs, sendVars, stopNotice>>

----------------------------------------------------------------------------
\* The end of a transmission, bot.js:178-187 and bot.js:217-223.

\* A handler that counts the file as cleaned without removing it.
UnlinkFileKeeps(j) ==
    /\ unlinks' = [unlinks EXCEPT ![j] = @ + 1]
    /\ outcome' = [outcome EXCEPT ![j] = "Cleaned"]
    /\ UNCHANGED <<files, msgs>>

\* bot.js:183 and bot.js:219: fs.unlinkSync(filePath) removes the file, or
\* throws when there is none, and then the catch sends the error.
UnlinkFile(j) ==
    /\ unlinks' = [unlinks EXCEPT ![j] = @ + 1]
    /\ IF filePath[j] \in files
       THEN /\ files' = files \ {filePath[j]}
            /\ outcome' = [outcome EXCEPT ![j] = "Cleaned"]
            /\ UNCHANGED msgs
       ELSE /\ msgs' = [msgs EXCEPT ![j] = Append(@, "UnlinkError")]
            /\ outcome' = [outcome EXCEPT ![j] = "UnlinkFailed"]
            /\ UNCHANGED files

\* A catch that also removes the file that could not be sent.
SendFailedCleansUp(j) ==
    /\ msgs' = [msgs EXCEPT ![j] = Append(@, "SendError")]
    /\ outcome' = [outcome EXCEPT ![j] =
                      IF @ = "QueueFull" THEN @ ELSE "DeliveryFailed"]
    /\ files' = files \ {filePath[j]}
    /\ UNCHANGED unlinks

\* bot.js:184-187 and bot.js:220-223: the transmission failed; the catch
\* sends the error.  A request the queue refused keeps that outcome.
SendFailed(j) ==
    /\ msgs' = [msgs EXCEPT ![j] = Append(@, "SendError")]
    /\ outcome' = [outcome EXCEPT ![j] =
                      IF @ = "QueueFull" THEN @ ELSE "DeliveryFailed"]
    /\ UNCHANGED <<files, unlinks>>

\* The transmission of request j ends, well (ok) or not, and its handler
\* runs to its end.
SendDone(j, ok) ==
    /\ UNCHANGED urlVars
    /\ pc[j] = "awaitSend"
    /\ ok => sendSeen[j]
    /\ sendOk' = [sendOk EXCEPT ![j] = ok]
    /\ pc' = [pc EXCEPT ![j] = "done"]
    /\ IF ok THEN UnlinkFile(j) ELSE SendFailed(j)
    /\ UNCHANGED <<activeDownloadCount, currentDownloadProcess, now, received,
                   kind, format, filePath, procVars, sends, sentAs, sendSeen,
                   releases, stopNotice>>

----------------------------------------------------------------------------
\* /stop, bot.js:227-239.

\* A /stop that gives a slot back although it stopped nothing.
StopNothingReleases ==
    /\ stopNotice' = "NoDownload"
    /\ activeDownloadCount' = activeDownloadCount - 1
    /\ UNCHANGED <<currentDownloadProcess, procVars>>

\* bot.js:230-233: nothing is recorded; one notice, then return.
StopNothing ==
    /\ stopNotice' = "NoDownload"
    /\ UNCHANGED <<activeDownloadCount, currentDownloadProcess, procVars>>

\* A /stop that signals the oldest running process, not the recorded one.
KillOldest(current) ==
    CHOOSE j \in Jobs :
        /\ proc[j] = "running"
        /\ \A i \in Jobs : proc[i] = "running" => j <= i

\* bot.js:235: the process the registry holds is the one that is signalled
KillTarget(current) == current

\* A /stop that signals the process and does not answer its issuer.
StopCurrentNoReply ==
    /\ proc' = [proc EXCEPT ![KillTarget(currentDownloadProcess)] = "signalled"]
    /\ currentDownloadProcess' = null
    /\ UNCHANGED <<activeDownloadCount, written, stopNotice>>

\* bot.js:235-238: signal the recorded process, clear the registry, reply.
StopCurrent ==
    /\ proc' = [proc EXCEPT ![KillTarget(currentDownloadProcess)] = "signalled"]
    /\ currentDownloadProcess' = null
    /\ stopNotice' = "Stopped"
    /\ UNCHANGED <<activeDownloadCount, written>>

Stop ==
    /\ UNCHANGED urlVars
    /\ IF currentDownloadProcess = null THEN StopNothing ELSE StopCurrent
    /\ UNCHANGED <<files, now, received, pc, outcome, kind, format, filePath,
                   msgs, sendVars, releases>>

----------------------------------------------------------------------------
\* /delete (bot.js:242-262) and the daily sweep (bot.js:112-124): every file
\* of the directory is removed.  The directory listing and the removal of
\* the listed files are one step; the replies of /delete are not recorded.

\* A removal that spares the files of the jobs still in the pipeline.
RemoveAllButInFlight(dir) ==
    {p \in dir : \E j \in Jobs :
        filePath[j] = p /\ pc[j] \in {"awaitDownload", "awaitSend"}}

RemoveAll(dir) == {}

Delete ==
    /\ UNCHANGED urlVars
    /\ files # {}
    /\ files' = RemoveAll(files)
    /\ UNCHANGED <<activeDownloadCount, currentDownloadProcess, now, received,
                   pc, outcome, kind, format, filePath, procVars, msgs,
                   sendVars, releases, stopNotice>>

Sweep ==
    /\ UNCHANGED urlVars
    /\ files # {}
    /\ files' = RemoveAll(files)
    /\ UNCHANGED <<activeDownloadCount, currentDownloadProcess, now, received,
                   pc, outcome, kind, format, filePath, procVars, msgs,
                   sendVars, releases, stopNotice>>

----------------------------------------------------------------------------
\* The general specification: any commands, any process and transmission
\* outcomes, MaxRequests download commands.

Arrive ==
    \E j \in 1 .. MaxRequests, k \in Kinds, url \in Urls, t \in {now, now + 1} :
        Request(j, k, url, t)

Write == \E j \in 1 .. MaxRequests : WriteFile(j)

Close == \E j \in 1 .. MaxRequests, error \in BOOLEAN : ProcessClose(j, error)

SpawnFail == \E j \in 1 .. MaxRequests : SpawnError(j)

LateClose == \E j \in 1 .. MaxRequests : CloseAfterError(j)

Sent == \E j \in 1 .. MaxRequests, ok \in BOOLEAN : SendDone(j, ok)

Next ==
    \/ Arrive
    \/ Write
    \/ Close
    \/ SpawnFail
    \/ LateClose
    \/ Sent
    \/ Stop
    \/ Delete
    \/ Sweep

Spec == Init /\ [][Next]_vars

----------------------------------------------------------------------------
\* The load specification: LoadRequests audio commands with a supported URL
\* arrive, the clock advancing between them; every process writes its file
\* and ends with exit code zero; a transmission succeeds or fails.

LoadArrive == \E j \in 1 .. LoadRequests : Request(j, "audio", LoadUrl, now + 1)

LoadWrite == \E j \in 1 .. LoadRequests : WriteFile(j)

LoadClose == \E j \in 1 .. LoadRequests : ProcessClose(j, FALSE)

LoadSent == \E j \in 1 .. LoadRequests, ok \in BOOLEAN : SendDone(j, ok)

NextLoad ==
    \/ LoadArrive
    \/ LoadWrite
    \/ LoadClose
    \/ LoadSent

SpecLoad == Init /\ [][NextLoad]_vars

----------------------------------------------------------------------------
\* normalizeUrl alone: one call on an argument drawn from every token
\* sequence of at most MaxUrlLen tokens.

MaxUrlLen == 5

\* The pieces the arguments are made of.
UrlTokens == {"https://", "youtube.com", "/shorts/", "?", "abc", "si=1"}

UrlInputs == UNION {[1 .. n -> UrlTokens] : n \in 0 .. MaxUrlLen}

InitUrl ==
    /\ InitBot
    /\ urlIn \in UrlInputs
    /\ urlOut = <<>>
    /\ urlPc = "called"

\* bot.js:55-61, one call from entry to return
NormalizeStep ==
    /\ urlPc = "called"
    /\ urlOut' = normalizeUrl(urlIn)
    /\ urlPc' = "returned"
    /\ UNCHANGED <<activeDownloadCount, currentDownloadProcess, files, now,
                   received, pc, outcome, kind, format, filePath, proc,
                   written, msgs, sends, sentAs, sendSeen, sendOk, unlinks,
                   releases, stopNotice, urlIn>>

SpecUrl == InitUrl /\ [][NormalizeStep]_vars

----------------------------------------------------------------------------
\* Vocabulary of the properties.

\* The requests whose process is spawned and whose 'close' is outstanding.
InFlight == {j \in Jobs : proc[j] \in {"running", "signalled"}}

\* The requests that were given an admission slot.
Admitted == {j \in Jobs : proc[j] # "none"}

\* Every process that was spawned has ended and its events are handled.
AllTerminated == \A j \in Jobs : proc[j] \in {"none", "closed"}

\* The status messages of request j: all but the progress message.
IsStatus(m) == m # "Downloading"
StatusCount(j) == Len(SelectSeq(msgs[j], IsStatus))

----------------------------------------------------------------------------
\* C1: in every reachable state the admission counter lies between 0 and
\* maxConcurrentDownloads.
C1_CounterInRange ==
    activeDownloadCount \in 0 .. maxConcurrentDownloads

\* C2: the slot of an admitted job is released exactly once when its
\* process terminates, by whichever path, and never twice.
C2_ReleasedExactlyOnce ==
    \A j \in Jobs :
        /\ releases[j] <= 1
        /\ proc[j] = "closed" => releases[j] = 1

\* C3: at no time are more than maxConcurrentDownloads fetch processes
\* running.
C3_AtMostFiveProcesses ==
    Cardinality(InFlight) <= maxConcurrentDownloads

\* C4: when six requests arrive before any job ends (the sixth is then the
\* one refused), exactly five are admitted and one rejected, and once all
\* admitted jobs have terminated the counter is 0 again.
C4_BurstOfSix ==
    (received >= 6 /\ outcome[6] = "QueueFull") =>
        /\ Cardinality(Admitted \cap (1 .. 6)) = 5
        /\ Cardinality({j \in 1 .. 6 : outcome[j] = "QueueFull"}) = 1
        /\ AllTerminated => activeDownloadCount = 0

\* C5: a request the admission check refuses is terminal: it got the
\* queue-full notice, no process was started for it, it released no slot,
\* and neither a transmission nor a deletion was attempted for it.
C5_RefusedGoesNoFurther ==
    \A j \in Jobs :
        outcome[j] = "QueueFull" =>
            /\ \E i \in 1 .. Len(msgs[j]) : msgs[j][i] = "QueueFull"
            /\ proc[j] = "none"
            /\ releases[j] = 0
            /\ pc[j] = "done"
            /\ sends[j] = 0
            /\ unlinks[j] = 0

\* C6: a request that has reached a terminal branch was sent exactly one
\* status message.
C6_OneStatusMessage ==
    \A j \in Jobs : pc[j] = "done" => StatusCount(j) = 1

\* C7: when the process of a job a ends while the registry holds another
\* job b, the registry still holds b afterwards.
C7_ExitKeepsOtherHandle ==
    [][\A a, b \in Jobs :
          ( /\ a # b
            /\ currentDownloadProcess = b
            /\ proc[a] \in {"running", "signalled", "errored"}
            /\ proc'[a] \in {"errored", "closed"}
            /\ proc'[a] # proc[a] )
          => currentDownloadProcess' = b]_vars

\* C8: /stop with an empty registry sends the 'no download' notice and
\* changes nothing else: counter, registry, processes and directory stay.
C8_StopNothingHasNoEffect ==
    [][(Stop /\ currentDownloadProcess = null) =>
          /\ stopNotice' = "NoDownload"
          /\ UNCHANGED <<activeDownloadCount, currentDownloadProcess, files,
                         now, received, pc, outcome, kind, format, filePath,
                         proc, written, msgs, sends, sentAs, sendSeen, sendOk,
                         unlinks, releases>>]_vars

\* C8 witness: /stop has answered 'no download' while a job was running, a
\* file was in the directory and the registry was empty.
C8_Witness ==
    /\ stopNotice = "NoDownload"
    /\ currentDownloadProcess = null
    /\ InFlight # {}
    /\ files # {}

\* C9: /stop with a handle in the registry signals exactly that process and
\* empties the registry in the same step, without the exit handler having
\* run and without touching the admission counter.
C9_StopSignalsCurrent ==
    [][(Stop /\ currentDownloadProcess # null) =>
          /\ proc'[currentDownloadProcess] = "signalled"
          /\ \A j \in Jobs \ {currentDownloadProcess} : proc'[j] = proc[j]
          /\ currentDownloadProcess' = null
          /\ stopNotice' = "Stopped"
          /\ pc'[currentDownloadProcess] = "awaitDownload"
          /\ UNCHANGED <<activeDownloadCount, releases, pc, outcome, msgs,
                         files>>]_vars

\* C9 witness: a job was signalled by /stop, its exit is not handled yet,
\* the registry is empty, and another job is running unsignalled.
C9_Witness ==
    /\ stopNotice = "Stopped"
    /\ currentDownloadProcess = null
    /\ \E j, i \in Jobs :
          /\ proc[j] = "signalled"
          /\ pc[j] = "awaitDownload"
          /\ releases[j] = 0
          /\ proc[i] = "running"

\* C10 as stated: a job whose process exits zero and whose transmission
\* succeeds ends in Cleaned.
C10_SentThenCleaned ==
    \A j \in Jobs : (pc[j] = "done" /\ sendOk[j]) => outcome[j] = "Cleaned"

\* C10 amended: the handler calls unlink on its output file only in the
\* step that ends a successful transmission; after that step the file is
\* not in the directory; the request ends in Cleaned when the file was still
\* there, and otherwise the unlink throws and the requester is sent the
\* error.
C10_UnlinkOnlyAfterSend ==
    [][\A j \in Jobs :
          /\ unlinks'[j] # unlinks[j] =>
                (pc[j] = "awaitSend" /\ pc'[j] = "done" /\ sendOk'[j])
          /\ (pc[j] = "awaitSend" /\ pc'[j] = "done" /\ sendOk'[j]) =>
                /\ proc[j] = "closed"
                /\ unlinks'[j] = 1
                /\ filePath[j] \notin files'
                /\ IF filePath[j] \in files
                   THEN outcome'[j] = "Cleaned" /\ msgs'[j] = msgs[j]
                   ELSE /\ outcome'[j] = "UnlinkFailed"
                        /\ msgs'[j] = Append(msgs[j], "UnlinkError")]_vars

\* C10 witness: a request is Cleaned after a successful transmission and
\* its file is gone.
C10_Witness ==
    \E j \in Jobs :
        /\ outcome[j] = "Cleaned"
        /\ sendOk[j]
        /\ unlinks[j] = 1
        /\ filePath[j] \notin files

\* C11: when the process of an admitted job ends with an error or cannot be
\* spawned, the request ends in Failed in that step: one failure notice with
\* the captured error text is sent, and no transmission and no deletion is
\* attempted for it, then or later.
C11_ErrorExitFails ==
    [][\A j \in Jobs :
          /\ (ProcessClose(j, TRUE) \/ SpawnError(j)) =>
                /\ outcome'[j] = "Failed"
                /\ pc'[j] = "done"
                /\ msgs'[j] = <<"Downloading", "DownloadError">>
                /\ sends'[j] = 0
                /\ unlinks'[j] = 0
                /\ files' = files
          /\ outcome[j] = "Failed" =>
                /\ msgs'[j] = msgs[j]
                /\ sends'[j] = 0
                /\ unlinks'[j] = 0]_vars

\* C11 witness: one request failed by a non-zero exit and another by a
\* spawn error whose 'close' is still outstanding.
C11_Witness ==
    \E i, j \in Jobs :
        /\ outcome[i] = "Failed" /\ proc[i] = "closed"
        /\ outcome[j] = "Failed" /\ proc[j] = "errored"
        /\ StatusCount(i) = 1 /\ StatusCount(j) = 1

\* C12: when the download succeeded and the transmission fails, the request
\* ends in DeliveryFailed: the requester is sent the failure notice and the
\* handler does not delete the file.
C12_SendFailureLeavesFile ==
    [][\A j \in Jobs :
          (SendDone(j, FALSE) /\ proc[j] = "closed") =>
              /\ outcome'[j] = "DeliveryFailed"
              /\ pc'[j] = "done"
              /\ msgs'[j] = <<"Downloading", "SendError">>
              /\ unlinks'[j] = 0
              /\ files' = files]_vars

\* C12 witness: a request ended in DeliveryFailed and its file is still in
\* the directory.
C12_Witness ==
    \E j \in Jobs :
        /\ outcome[j] = "DeliveryFailed"
        /\ pc[j] = "done"
        /\ filePath[j] \in files
        /\ unlinks[j] = 0

\* The text of url is empty or does not begin with "http".
LacksHttpPrefix(url) == url = <<>> \/ Head(url) \notin {"http", "http://", "https://"}

\* C13: a request whose URL is empty or lacks the HTTP prefix is rejected
\* with the invalid-URL notice, and one whose normalized URL is not on the
\* allow-list with the unsupported-URL notice; either way the handler ends
\* there: no slot is taken, no process is spawned, nothing is transmitted,
\* and counter and registry are unchanged.
C13_BadUrlRejected ==
    [][\A j \in Jobs, k \in Kinds, url \in Urls, t \in {now, now + 1} :
          LET why == IF LacksHttpPrefix(url) THEN "InvalidUrl"
                     ELSE IF ~isSupportedDomain(normalizeUrl(url))
                     THEN "Unsupported" ELSE "none"
          IN  (Request(j, k, url, t) /\ why # "none") =>
                  /\ outcome'[j] = why
                  /\ msgs'[j] = <<why>>
                  /\ pc'[j] = "done"
                  /\ proc'[j] = "none"
                  /\ sends'[j] = 0
                  /\ filePath'[j] = Undefined
                  /\ UNCHANGED <<activeDownloadCount, currentDownloadProcess,
                                 files, proc, releases>>]_vars

\* C13 witness: one request was rejected for an invalid URL and one for an
\* unsupported URL.
C13_Witness ==
    \E i, j \in Jobs :
        /\ outcome[i] = "InvalidUrl" /\ msgs[i] = <<"InvalidUrl">>
        /\ outcome[j] = "Unsupported" /\ msgs[j] = <<"Unsupported">>
        /\ pc[i] = "done" /\ pc[j] = "done"
        /\ activeDownloadCount = 0

\* C14: for every admitted request the format selector given to the tool
\* and the transport of the file follow from the request kind alone: audio
\* is fetched as bestaudio and sent as audio, video as bestvideo+bestaudio
\* and sent as video, mute-video as bestvideo and sent as video.
C14_KindDecides ==
    \A j \in Admitted :
        /\ kind[j] \in Kinds
        /\ kind[j] = "audio" => format[j] = "bestaudio"
        /\ kind[j] = "video" => format[j] = "bestvideo+bestaudio"
        /\ kind[j] = "mute-video" => format[j] = "bestvideo"
        /\ sends[j] > 0 =>
              sentAs[j] = IF kind[j] = "audio" THEN "sendAudio" ELSE "sendVideo"

\* C14 witness: a mute-video job and an audio job have both been
\* transmitted.
C14_Witness ==
    \E i, j \in Admitted :
        /\ kind[i] = "mute-video" /\ format[i] = "bestvideo"
        /\ sends[i] = 1 /\ sentAs[i] = "sendVideo"
        /\ kind[j] = "audio" /\ format[j] = "bestaudio"
        /\ sends[j] = 1 /\ sentAs[j] = "sendAudio"

----------------------------------------------------------------------------
\* C15: for every URL that contains the shorts-path marker, normalizeUrl
\* returns the canonical watch URL whose video identifier is the part of the
\* input that follows the marker up to the first "?", and nothing of the
\* input's query string; every URL without the marker is returned unchanged.

\* The marker 'youtube.com/shorts/' begins at token i of url.
MarkerAt(url, i) ==
    /\ i \in 1 .. Len(url) - 1
    /\ url[i] = "youtube.com"
    /\ url[i + 1] = "/shorts/"

HasMarker(url) == \E i \in 1 .. Len(url) : MarkerAt(url, i)

\* What follows the first marker, up to the first "?" after it.
ClaimedId(url) ==
    LET m == CHOOSE i \in 1 .. Len(url) :
                 MarkerAt(url, i) /\ \A k \in 1 .. i - 1 : ~MarkerAt(url, k)
        rest == SubSeq(url, m + 2, Len(url))
        qs == {i \in 1 .. Len(rest) : rest[i] = "?"}
        end == IF qs = {} THEN Len(rest) + 1
               ELSE CHOOSE i \in qs : \A k \in qs : i <= k
    IN  SubSeq(rest, 1, end - 1)

WatchUrl(id) == <<"https://", "www.", "youtube.com", "/watch", "?", "v=">> \o id

C15_NormalizeAsClaimed ==
    urlPc = "returned" =>
        IF HasMarker(urlIn)
        THEN urlOut = WatchUrl(ClaimedId(urlIn))
        ELSE urlOut = urlIn

----------------------------------------------------------------------------
\* C16: every spawn overwrites the one registry slot, so the registry, while
\* it is not cleared, refers to the most recently started job, and that job
\* is running; a /stop that finds the slot occupied signals that job and no
\* other; a running job after which another job was started is signalled by
\* no step at all, so no later /stop reaches it before it exits.

\* Request j is the most recently started job.
IsLatestStarted(j) == j \in Admitted /\ \A i \in Admitted : i <= j

C16_StopReachesLatestOnly ==
    [][ /\ currentDownloadProcess' # null =>
            /\ \A i \in Jobs :
                  proc'[i] # "none" => i <= currentDownloadProcess'
            /\ proc'[currentDownloadProcess'] = "running"
        /\ \A j \in Jobs :
              (proc[j] = "none" /\ proc'[j] = "running") =>
                  currentDownloadProcess' = j
        /\ (Stop /\ currentDownloadProcess # null) =>
              /\ IsLatestStarted(currentDownloadProcess)
              /\ proc'[currentDownloadProcess] = "signalled"
              /\ \A a \in Jobs \ {currentDownloadProcess} : proc'[a] = proc[a]
        /\ \A a \in Jobs :
              (proc[a] = "running" /\ \E b \in Admitted : b > a) =>
                  proc'[a] \in {"running", "closed", "errored"}
      ]_vars

\* A then B were started, /stop found B in the slot and signalled it, and A
\* is still running with the slot empty.
C16_Witness ==
    /\ received = 2
    /\ proc[1] = "running"
    /\ proc[2] = "signalled"
    /\ currentDownloadProcess = null
    /\ stopNotice = "Stopped"

----------------------------------------------------------------------------
\* C17: no two jobs that are in flight at the same time have the same output
\* file path: the path of an admitted job differs from that of every other
\* admitted job that is still running or awaiting delivery, also when both
\* were admitted at the same reading of the clock.

\* Admitted request j is still downloading or its file is being transmitted.
RunningOrAwaitingDelivery(j) ==
    j \in Admitted /\ pc[j] \in {"awaitDownload", "awaitSend"}

C17_DistinctPaths ==
    \A i, j \in Jobs :
        (i # j /\ RunningOrAwaitingDelivery(i) /\ RunningOrAwaitingDelivery(j))
            => filePath[i] # filePath[j]

----------------------------------------------------------------------------
\* C18: the daily sweep and /delete remove every file of the download
\* directory, whatever jobs are in flight; so the output file of a job that
\* is still running, or that has succeeded and is not yet transmitted, can be
\* gone before the pipeline transmits it.

C18_RemovesEveryFile ==
    [][(Sweep \/ Delete) => (files # {} /\ files' = {})]_vars

\* The file of job j was written, no handler has unlinked anything, and the
\* file is gone while j is running or its transmission is outstanding.
C18_Witness ==
    \E j \in Jobs :
        /\ written[j]
        /\ filePath[j] \notin files
        /\ \A i \in Jobs : unlinks[i] = 0
        /\ \/ proc[j] = "running"
           \/ proc[j] = "closed" /\ pc[j] = "awaitSend" /\ ~sendSeen[j]

----------------------------------------------------------------------------
\* C19: a job terminated by /stop ends as a failed job for its own
\* requester: the /stop that finds the job in the registry signals it and
\* answers its issuer that the download was stopped; when the exit of the
\* killed process is handled, the requester's pipeline reaches Failed with
\* the failure notice, and nothing is transmitted or unlinked for it, then
\* or later.

C19_StoppedJobFails ==
    [][ /\ (Stop /\ currentDownloadProcess # null) =>
              /\ proc'[currentDownloadProcess] = "signalled"
              /\ stopNotice' = "Stopped"
              /\ msgs' = msgs
              /\ outcome' = outcome
        /\ \A j \in Jobs :
              (proc[j] = "signalled" /\ ProcessClose(j, TRUE)) =>
                  /\ proc'[j] = "closed"
                  /\ outcome'[j] = "Failed"
                  /\ pc'[j] = "done"
                  /\ msgs'[j] = <<"Downloading", "DownloadError">>
                  /\ sends'[j] = 0
                  /\ unlinks'[j] = 0
                  /\ files' = files
        /\ \A j \in Jobs :
              (proc[j] = "closed" /\ outcome[j] = "Failed") =>
                  /\ outcome'[j] = "Failed"
                  /\ msgs'[j] = msgs[j]
                  /\ sends'[j] = 0
                  /\ unlinks'[j] = 0
      ]_vars

\* The only job was signalled by /stop after it had written its file; its
\* exit is handled: Failed, one failure notice, nothing sent, file left.
C19_Witness ==
    /\ received = 1
    /\ stopNotice = "Stopped"
    /\ proc[1] = "closed"
    /\ outcome[1] = "Failed"
    /\ msgs[1] = <<"Downloading", "DownloadError">>
    /\ written[1]
    /\ filePath[1] \in files
    /\ sends[1] = 0
    /\ unlinks[1] = 0

====
